---- MODULE Spec2Model ----
(***************************************************************************)
(* Reconfigurable-precision synthesis: the launcher script (src/reconf.py) *)
(* reads a configuration and runs ReconfSynthesis.run, which calls the     *)
(* synthesis backend once per cumulative scenario combination.             *)
(*                                                                         *)
(* Voltages are integers in millivolt (1000 = 1.0 V); a voltage string is  *)
(* the pair <<sign letter, centivolt>> that "{:.2f}" prints.  Powers and   *)
(* weights are naturals.  Python's None is the empty tuple and a present   *)
(* optional value x is <<x>>.  List indices are 0-based as in the code.    *)
(***************************************************************************)
EXTENDS Integers, Sequences, FiniteSets, TLC

\* ------------------------------------------------------------------ bounds
\* number of candidate voltages the configurations draw from
NumVdd == 3
\* backend power values range over 0..MaxPower
MaxPower == 1

\* ------------------------------------------------------------- input sets
None == <<>>
Some(x) == <<x>>
At(s, i) == s[i + 1]
Range(s) == {s[i] : i \in DOMAIN s}

\* the orderings of the first k entries of a table
Perms(table, k) ==
    {s \in [1..k -> {table[i] : i \in 1..k}] : \A i, j \in 1..k : i # j => s[i] # s[j]}

AccTable == <<8, 4, 2>>
\* 904 and 896 both print as 0.90
VddTable == <<1000, 904, 896, 800, 700>>
ModeNames == <<"m0", "m1">>

\* ------------------------------------------------------------ axpy/helper
Round2(mv) == (mv + 5) \div 10

voltage_to_string(v) ==
    IF v < 0 THEN <<"m", Round2(0 - v)>> ELSE <<"", Round2(v)>>

\* ---------------------------------------------------------- axpy/scenario
AxScenario(accuracy, vdd, clock_multiplier, mode_signals) ==
    [accuracy |-> accuracy, vdd |-> vdd,
     clock_multiplier |-> clock_multiplier, mode_signals |-> mode_signals]

\* a name that also depends on the clock multiplier
name_with_clock(s) ==
    <<"acc", s.accuracy, "bit_vdd", voltage_to_string(s.vdd), s.clock_multiplier>>

name(s) == <<"acc", s.accuracy, "bit_vdd", voltage_to_string(s.vdd), "V">>

\* the text "{ acc vdd [cm] [{ n v } ...] }" as its fields: precision, voltage
\* string, the clock multiplier if any, the (signal, value) pairs if any
tcl_description(s) ==
    <<s.accuracy, voltage_to_string(s.vdd), s.clock_multiplier,
      IF s.mode_signals = None THEN <<>> ELSE s.mode_signals[1]>>

\* AxScenario.duplicate: the constructor takes (accuracy, vdd, ...) and is
\* given (self.vdd, self.accuracy, ...).  The new accuracy is the voltage (kept
\* in millivolts) and the new vdd is the precision read as a number of volts.
scenario_duplicate(s) ==
    AxScenario(s.vdd, s.accuracy * 1000, s.clock_multiplier, s.mode_signals)

\* ----------------------------------------------------- configuration files
\* A configuration file: the [Scenarios] section.  precision and vdd are
\* lists of distinct values; the optional keys are None when absent.
\* precision and vdd are lists of distinct values, in any order
CfgAcc == UNION {Perms(AccTable, k) : k \in 1..Len(AccTable)}
CfgVdd == UNION {Perms(VddTable, k) : k \in 1..NumVdd}

CmTable == <<1, 2, 4>>
WeightTable1 == <<1, 2, 1, 2>>
WeightTable2 == <<2, 1, 1, 1>>
Lengths(n) == {k \in {n - 1, n, n + 1} : k >= 0}

BaseRow(i, L) == [j \in 1..L |-> (i + j) % 2]
BaseMatrix(n, L) == [i \in 1..n |-> BaseRow(i, L)]
\* value matrices with a single defect: a row missing or added, a row too
\* short or too long, a value that is neither 0 nor 1
BadMatrices(n, L) ==
    LET B == BaseMatrix(n, L) IN
      {SubSeq(B, 1, n - 1), Append(B, BaseRow(n + 1, L))}
      \cup {[B EXCEPT ![k] = SubSeq(B[k], 1, L - 1)] : k \in 1..n}
      \cup {[B EXCEPT ![k] = Append(B[k], 0)] : k \in 1..n}
      \cup {[B EXCEPT ![k][j] = 2] : k \in 1..n, j \in 1..L}

Optional(cm, mi, mv, w) ==
    [clock_multipliers |-> cm, mode_inputs |-> mi, mode_values |-> mv, weights |-> w]

\* the optional keys of [Scenarios] for n precisions, None when absent
GoodOptions(n) ==
    {Optional(None, None, None, None),
     Optional(Some(SubSeq(CmTable, 1, n)), Some(SubSeq(ModeNames, 1, 1)),
              Some(BaseMatrix(n, 1)), Some(SubSeq(WeightTable1, 1, n))),
     Optional(None, Some(SubSeq(ModeNames, 1, 2)),
              Some(BaseMatrix(n, 2)), Some(SubSeq(WeightTable2, 1, n)))}

BadOptions(n) ==
    {Optional(None, None, None, Some(SubSeq(WeightTable1, 1, m))) : m \in Lengths(n) \ {n}}
    \cup UNION {{Optional(None, Some(SubSeq(ModeNames, 1, L)), Some(M), w)
                    : M \in BadMatrices(n, L),
                      w \in {None, Some(SubSeq(WeightTable2, 1, n))}} : L \in 1..2}
    \cup {Optional(Some(SubSeq(CmTable, 1, n)), Some(SubSeq(ModeNames, 1, 1)),
                   Some(BaseMatrix(n, 1)), Some(SubSeq(WeightTable2, 1, n + 1)))}

\* ------------------------------------------------------------------ state
VARIABLES
    pc,                 \* position of the launcher script / run
    acc_list, vdd_list, clock_multipliers, mode_inputs, mode_values, weights,
    scen_table, power_table,      \* ReconfSynthesis fields
    curr_acc_id, curr_vdd_id, new_vdd_id,
    curr_scenario, curr_power, curr_tot_power,    \* locals of run
    work_files,         \* combined-scenario keys with artifacts in work_dir
    out_files,          \* keys whose artifacts were copied to output_dir
    report,             \* lines of the output table file, None if not written
    result,             \* value returned by run, None if it has not returned
    cfg,                \* the configuration file that was read
    calls,              \* log of the backend calls made
    last,               \* the latest backend call: what it returned, how it compared
    committed,          \* scenarios written to scen_table, in commit order
    accepted_ret,       \* power vector returned by the latest accepted call
    steps,              \* per precision index, voltage steps probed
    input_ports, output_ports, port_multipliers,    \* AxCircuit fields
    op,                 \* the latest circuit operation and how it ended
    before,             \* the three tables before the latest operation
    undo,               \* the name and the tables before an add_port just made
    nops,               \* circuit operations made so far
    scen_a, scen_b,     \* two AxScenario objects
    scen_names,         \* their names, once computed
    scen_dup            \* the duplicate of the first one, once made

fields == <<acc_list, vdd_list, clock_multipliers, mode_inputs, mode_values, weights>>
tables == <<scen_table, power_table>>
locals == <<curr_acc_id, curr_vdd_id, new_vdd_id, curr_scenario, curr_power, curr_tot_power>>
files  == <<work_files, out_files, report, result>>
ghosts == <<cfg, calls, last, committed, accepted_ret, steps>>
circ   == <<input_ports, output_ports, port_multipliers, op, before, undo, nops>>
scn    == <<scen_a, scen_b, scen_names, scen_dup>>
objects == <<circ, scn>>
run    == <<pc, fields, tables, locals, files, ghosts>>
vars   == <<run, objects>>

\* a local that has not been assigned yet
Unbound == <<>>

\* no circuit under edit
CircuitIdle ==
    /\ input_ports = None /\ output_ports = None /\ port_multipliers = None
    /\ op = None /\ before = None /\ undo = None /\ nops = 0

\* no scenario pair under study
ScenarioIdle == scen_a = None /\ scen_b = None /\ scen_names = None /\ scen_dup = None

RunIdle ==
    /\ pc = "start"
    /\ acc_list = None /\ vdd_list = None /\ clock_multipliers = None
    /\ mode_inputs = None /\ mode_values = None /\ weights = None
    /\ scen_table = None /\ power_table = None
    /\ curr_acc_id = Unbound /\ curr_vdd_id = Unbound /\ new_vdd_id = Unbound
    /\ curr_scenario = Unbound /\ curr_power = Unbound /\ curr_tot_power = Unbound
    /\ work_files = {} /\ out_files = {} /\ report = None /\ result = None
    /\ cfg = None /\ calls = <<>> /\ last = None /\ committed = <<>>
    /\ accepted_ret = None /\ steps = <<>>

Init == RunIdle /\ CircuitIdle /\ ScenarioIdle

\* ------------------------------------------------------------ read_config
\* _check_mode_inputs: TRUE when it returns, FALSE when it raises
check_mode_inputs(accs, inputs, values) ==
    \/ inputs = None
    \/ /\ Len(accs) = Len(values[1])
       /\ \A k \in DOMAIN values[1] :
             /\ Len(values[1][k]) = Len(inputs[1])
             /\ \A j \in DOMAIN values[1][k] : values[1][k][j] \in {0, 1}

\* the weight count is not checked
weights_ok_unchecked(accs, w) == TRUE

weights_ok(accs, w) == w = None \/ Len(w[1]) = Len(accs)

ReadConfig ==
    /\ pc = "start"
    /\ \E a \in CfgAcc, v \in CfgVdd :
       \E o \in GoodOptions(Len(a)) \cup BadOptions(Len(a)) :
         LET c == [precision |-> a, vdd |-> v, clock_multipliers |-> o.clock_multipliers,
                   mode_inputs |-> o.mode_inputs, mode_values |-> o.mode_values,
                   weights |-> o.weights]
             modes_ok == check_mode_inputs(c.precision, c.mode_inputs, c.mode_values)
             w_ok     == weights_ok(c.precision, c.weights)
         IN
         /\ cfg' = [precision |-> a] @@ o
         /\ vdd_list' = c.vdd
         /\ acc_list' = c.precision
         /\ clock_multipliers' =
                IF c.clock_multipliers = None
                THEN [i \in 1..Len(c.precision) |-> None]
                ELSE [i \in 1..Len(c.clock_multipliers[1]) |-> Some(c.clock_multipliers[1][i])]
         /\ mode_inputs' = c.mode_inputs
         /\ mode_values' = c.mode_values
         /\ weights' = IF ~modes_ok THEN None
                       ELSE IF c.weights = None THEN [i \in 1..Len(c.precision) |-> 1]
                       ELSE IF w_ok THEN c.weights[1]
                       ELSE None
         /\ pc' = IF modes_ok /\ w_ok THEN "loaded" ELSE "ConfigException"
    /\ UNCHANGED objects
    /\ UNCHANGED <<tables, locals, files, calls, last, committed, accepted_ret, steps>>

\* -------------------------------------------------------------------- run
\* sorted(..., reverse = True): indices of key by descending key, stable
RECURSIVE sorted_rev(_, _)
sorted_rev(idx, key) ==
    IF idx = {} THEN <<>>
    ELSE LET m == CHOOSE i \in idx :
                    \A j \in idx : key[i] > key[j] \/ (key[i] = key[j] /\ i <= j)
         IN <<m>> \o sorted_rev(idx \ {m}, key)

\* the precisions are left in configuration order
sorted_idx_unsorted(accs) == [k \in DOMAIN accs |-> k]

sorted_idx(accs) == sorted_rev(DOMAIN accs, accs)

\* sorting without reverse = True
sort_ascending(list) ==
    LET vi == sorted_rev(DOMAIN list, list)
    IN [k \in DOMAIN vi |-> list[vi[Len(vi) + 1 - k]]]

\* list.sort(reverse = True)
sort_reverse(list) ==
    LET vi == sorted_rev(DOMAIN list, list) IN [k \in DOMAIN vi |-> list[vi[k]]]

\* keys of {_ : None for _ in acc_list}, in insertion order
RECURSIVE dict_keys(_)
dict_keys(accs) ==
    IF accs = <<>> THEN <<>>
    ELSE LET front == SubSeq(accs, 1, Len(accs) - 1)
             a     == accs[Len(accs)]
         IN IF a \in Range(front) THEN dict_keys(front) ELSE Append(dict_keys(front), a)

\* lines 103-118: directories, sorting, empty tables
RunInit ==
    /\ pc = "loaded"
    /\ LET idx == sorted_idx(acc_list) IN
         /\ acc_list' = [k \in DOMAIN idx |-> acc_list[idx[k]]]
         /\ mode_values' = IF mode_values = None THEN None
                            ELSE Some([k \in DOMAIN idx |-> mode_values[1][idx[k]]])
         /\ vdd_list' = sort_reverse(vdd_list)
    /\ scen_table' = [a \in Range(acc_list) |-> None]
    /\ power_table' = [a \in Range(acc_list) |-> None]
    /\ work_files' = {}
    /\ pc' = "nominal"
    /\ UNCHANGED objects
    /\ UNCHANGED <<clock_multipliers, mode_inputs, weights, locals,
                   out_files, report, result, ghosts>>

\* every precision gets the values of the first one
create_mode_first(precision_index) ==
    IF mode_inputs # None
    THEN Some([j \in DOMAIN mode_inputs[1] |->
                 <<mode_inputs[1][j], At(mode_values[1], 0)[j]>>])
    ELSE None

create_mode(precision_index) ==
    IF mode_inputs # None
    THEN Some([j \in DOMAIN mode_inputs[1] |->
                 <<mode_inputs[1][j], At(mode_values[1], precision_index)[j]>>])
    ELSE None

\* the accepted scenarios, in the order of scen_table.values()
table_values(table) ==
    LET ks  == dict_keys(acc_list)
        set == {k \in DOMAIN ks : table[ks[k]] # None}
        F[n \in 0..Len(ks)] ==
            IF n = 0 THEN <<>>
            ELSE IF n \in set THEN Append(F[n - 1], table[ks[n]][1]) ELSE F[n - 1]
    IN F[Len(ks)]

\* only the latest accepted scenario is combined with the trial
combined_scenarios_latest(table, add) ==
    LET tv == table_values(table)
    IN (IF tv = <<>> THEN <<>> ELSE <<tv[Len(tv)]>>) \o add

combined_scenarios(table, add) == table_values(table) \o add

\* "_".join(names), as the sequence of its pieces
RECURSIVE join(_)
join(names) ==
    IF names = <<>> THEN <<>>
    ELSE IF Len(names) = 1 THEN names
    ELSE join(SubSeq(names, 1, Len(names) - 1)) \o <<(<<"_">>), names[Len(names)]>>

\* the trial's name is put in front of the accepted names
combined_scenario_name_prepend(table, add) ==
    LET tv == table_values(table) IN
    (IF add = None THEN <<>> ELSE <<name(add[1]), (<<"_">>)>>)
        \o join([k \in DOMAIN tv |-> name(tv[k])])

combined_scenario_name(table, add) ==
    LET tv == table_values(table) IN
    join([k \in DOMAIN tv |-> name(tv[k])])
        \o (IF add = None THEN <<>> ELSE <<(<<"_">>), name(add[1])>>)

combined_scenario_desc(table, add) ==
    LET cs == combined_scenarios(table, add) IN [k \in DOMAIN cs |-> tcl_description(cs[k])]

weighted_total_power(power) ==
    LET n == IF Len(power) < Len(weights) THEN Len(power) ELSE Len(weights)
        S[k \in 0..n] == IF k = 0 THEN 0 ELSE S[k - 1] + power[k] * weights[k]
    IN S[n]

\* what the backend can write to the data file for n scenarios
BackendResults(n) == [power : [1..n -> 0..MaxPower], ok : BOOLEAN]

\* the backend is launched twice for one call
CallDC_twice(kind, a, v, add_scenario, r, best, accepted) ==
    LET key == combined_scenario_name(scen_table, Some(add_scenario))
        rec == [kind |-> kind, acc_id |-> a, vdd_id |-> v, trial |-> add_scenario,
                scens |-> combined_scenarios(scen_table, Some(add_scenario)),
                desc |-> combined_scenario_desc(scen_table, Some(add_scenario)),
                key |-> key, ncommitted |-> Len(committed), accepted |-> accepted]
    IN
    /\ calls' = calls \o <<rec, rec>>
    /\ work_files' = work_files \cup {key}
    /\ last' = [ok |-> r.ok, power |-> r.power,
                tot |-> weighted_total_power(r.power), best |-> best]
    /\ accepted_ret' = IF accepted THEN r.power ELSE accepted_ret

\* _call_dc(add_scenario) with the backend answering r; kind, a, v and best
\* describe the call in the log
CallDC(kind, a, v, add_scenario, r, best, accepted) ==
    LET key == combined_scenario_name(scen_table, Some(add_scenario)) IN
    /\ calls' = Append(calls,
                   [kind |-> kind, acc_id |-> a, vdd_id |-> v, trial |-> add_scenario,
                    scens |-> combined_scenarios(scen_table, Some(add_scenario)),
                    desc |-> combined_scenario_desc(scen_table, Some(add_scenario)),
                    key |-> key, ncommitted |-> Len(committed), accepted |-> accepted])
    /\ work_files' = work_files \cup {key}
    /\ last' = [ok |-> r.ok, power |-> r.power,
                tot |-> weighted_total_power(r.power), best |-> best]
    /\ accepted_ret' = IF accepted THEN r.power ELSE accepted_ret

\* the compliance flag is ignored
timing_error_never(ok) == FALSE

\* lines 132 and 152: "if not ok: raise TimingException"
timing_error(ok) == ~ok

\* lines 120-139: nominal scenario, nominal synthesis
NominalCall ==
    /\ pc = "nominal"
    /\ LET nom_scenario == AxScenario(At(acc_list, 0), At(vdd_list, 0),
                                      At(clock_multipliers, 0), create_mode(0))
       IN \E r \in BackendResults(Len(table_values(scen_table)) + 1) :
            /\ CallDC("nominal", 0, 0, nom_scenario, r, weighted_total_power(r.power), r.ok)
            /\ IF timing_error(r.ok)
               THEN /\ pc' = "TimingException"
                    /\ UNCHANGED <<scen_table, committed, curr_vdd_id, curr_acc_id>>
               ELSE /\ scen_table' = [scen_table EXCEPT ![At(acc_list, 0)] = Some(nom_scenario)]
                    /\ committed' = Append(committed, nom_scenario)
                    /\ curr_vdd_id' = 0
                    /\ IF 1 < Len(acc_list)
                       THEN curr_acc_id' = 1 /\ pc' = "trial"
                       ELSE UNCHANGED curr_acc_id /\ pc' = "final"
    /\ UNCHANGED objects
    /\ UNCHANGED <<fields, power_table, new_vdd_id, curr_scenario, curr_power,
                   curr_tot_power, out_files, report, result, cfg, steps>>

\* lines 141-153: the new precision at the voltage of the previous one
SameVddTrial ==
    /\ pc = "trial"
    /\ LET scen == AxScenario(At(acc_list, curr_acc_id), At(vdd_list, curr_vdd_id),
                              At(clock_multipliers, curr_acc_id), create_mode(curr_acc_id))
       IN \E r \in BackendResults(Len(table_values(scen_table)) + 1) :
            /\ CallDC("same", curr_acc_id, curr_vdd_id, scen, r,
                      weighted_total_power(r.power), r.ok)
            /\ curr_scenario' = scen
            /\ curr_power' = r.power
            /\ curr_tot_power' = weighted_total_power(r.power)
            /\ steps' = Append(steps, 0)
            /\ IF timing_error(r.ok)
               THEN pc' = "TimingException" /\ UNCHANGED new_vdd_id
               ELSE IF curr_vdd_id + 1 < Len(vdd_list)
                    THEN new_vdd_id' = curr_vdd_id + 1 /\ pc' = "probe"
                    ELSE UNCHANGED new_vdd_id /\ pc' = "commit"
    /\ UNCHANGED objects
    /\ UNCHANGED <<fields, tables, curr_acc_id, curr_vdd_id,
                   out_files, report, result, cfg, committed>>

\* the power comparison is left out
accept_any_power(ok, new_tot_power, best) == ok

\* line 166
accept(ok, new_tot_power, best) == ok /\ new_tot_power <= best

\* lines 155-172: one iteration of the voltage descent
Probe ==
    /\ pc = "probe"
    /\ LET new_scenario == AxScenario(At(acc_list, curr_acc_id), At(vdd_list, new_vdd_id),
                                      At(clock_multipliers, curr_acc_id),
                                      create_mode(curr_acc_id))
       IN \E r \in BackendResults(Len(table_values(scen_table)) + 1) :
            LET new_tot_power == weighted_total_power(r.power)
                acc == accept(r.ok, new_tot_power, curr_tot_power)
            IN
            /\ CallDC("probe", curr_acc_id, new_vdd_id, new_scenario, r, curr_tot_power, acc)
            /\ steps' = [steps EXCEPT ![Len(steps)] = @ + 1]
            /\ IF acc
               THEN /\ curr_power' = r.power
                    /\ curr_tot_power' = new_tot_power
                    /\ curr_scenario' = new_scenario
                    /\ curr_vdd_id' = new_vdd_id
                    /\ IF new_vdd_id + 1 < Len(vdd_list)
                       THEN new_vdd_id' = new_vdd_id + 1 /\ pc' = "probe"
                       ELSE UNCHANGED new_vdd_id /\ pc' = "commit"
               ELSE /\ pc' = "commit"
                    /\ UNCHANGED <<curr_power, curr_tot_power, curr_scenario,
                                   curr_vdd_id, new_vdd_id>>
    /\ UNCHANGED objects
    /\ UNCHANGED <<fields, tables, curr_acc_id, out_files, report, result, cfg, committed>>

\* line 175, then the next precision
Commit ==
    /\ pc = "commit"
    /\ scen_table' = [scen_table EXCEPT ![At(acc_list, curr_acc_id)] = Some(curr_scenario)]
    /\ committed' = Append(committed, curr_scenario)
    /\ IF curr_acc_id + 1 < Len(acc_list)
       THEN curr_acc_id' = curr_acc_id + 1 /\ pc' = "trial"
       ELSE UNCHANGED curr_acc_id /\ pc' = "final"
    /\ UNCHANGED objects
    /\ UNCHANGED <<fields, power_table, curr_vdd_id, new_vdd_id, curr_scenario,
                   curr_power, curr_tot_power, files, cfg, calls, last, accepted_ret, steps>>

\* the power vector is paired with the precisions back to front
zip_dict_reversed(accs, power) ==
    LET n == IF Len(accs) < Len(power) THEN Len(accs) ELSE Len(power) IN
    [a \in {accs[i] : i \in 1..n} |->
        power[n + 1 - (CHOOSE i \in 1..n : accs[i] = a)]]

\* {i : j for i, j in zip(acc_list, power)}
zip_dict(accs, power) ==
    LET n == IF Len(accs) < Len(power) THEN Len(accs) ELSE Len(power) IN
    [a \in {accs[i] : i \in 1..n} |->
        power[CHOOSE i \in 1..n : accs[i] = a /\ \A j \in 1..n : accs[j] = a => j <= i]]

\* lines 177-195: power table, report file, artifacts, return value
Finalize ==
    /\ pc = "final"
    /\ IF curr_power = Unbound
       THEN /\ pc' = "UnboundLocalError"
            /\ UNCHANGED <<power_table, report, out_files, result>>
       ELSE LET pt  == zip_dict(acc_list, curr_power)
                key == combined_scenario_name(scen_table, None)
            IN
            /\ power_table' = [a \in DOMAIN pt |-> Some(pt[a])]
            /\ IF \E i \in DOMAIN acc_list : acc_list[i] \notin DOMAIN pt
               THEN /\ pc' = "KeyError"
                    /\ UNCHANGED <<report, out_files, result>>
               ELSE /\ report' = Some([i \in DOMAIN acc_list |->
                                         <<acc_list[i], pt[acc_list[i]],
                                           scen_table[acc_list[i]][1].vdd>>])
                    /\ IF key \in work_files
                       THEN /\ out_files' = out_files \cup {key}
                            /\ result' = Some([i \in DOMAIN acc_list |->
                                                 <<pt[acc_list[i]], scen_table[acc_list[i]][1]>>])
                            /\ pc' = "done"
                       ELSE /\ pc' = "FileNotFoundError"
                            /\ UNCHANGED <<out_files, result>>
    /\ UNCHANGED objects
    /\ UNCHANGED <<fields, scen_table, locals, work_files, ghosts>>

Next ==
    \/ ReadConfig
    \/ RunInit
    \/ NominalCall
    \/ SameVddTrial
    \/ Probe
    \/ Commit
    \/ Finalize

Spec == Init /\ [][Next]_vars

\* run is sequential code: once called, a statement that can execute does,
\* and every backend call returns.  Every step of run changes the position,
\* the call log or the commit log, and run has a next statement exactly at
\* the positions of Running.
RunStep == RunInit \/ NominalCall \/ SameVddTrial \/ Probe \/ Commit \/ Finalize
Running == pc \in {"loaded", "nominal", "trial", "probe", "commit", "final"}
progress == <<pc, calls, committed>>

\* weak fairness of run's steps, WF_progress(RunStep), with ENABLED RunStep
\* written as the state predicate Running
LiveSpec == Spec /\ (<>[]Running => []<><<RunStep>>_progress)

\* ----------------------------------------------------------- axpy/circuit
\* circuit operations made in one behaviour
MaxOps == 3

PortNames == {"a", "b"}
Widths == {1, 2}
Multipliers == {2, 3}

\* d[k] = v and del d[k] on a dict
dict_set(d, k, v) == [x \in DOMAIN d \cup {k} |-> IF x = k THEN v ELSE d[x]]
dict_del(d, k) == [x \in DOMAIN d \ {k} |-> d[x]]

Dicts(K, V) == UNION {[D -> V] : D \in SUBSET K}

Circuit(ip, outp, pm) ==
    [input_ports |-> ip, output_ports |-> outp, port_multipliers |-> pm]

\* how a method ends: the exception raised ("" if none) and the circuit left
Raise(c, e) == [exc |-> e, circuit |-> c]
Return(c) == [exc |-> "", circuit |-> c]

\* AxCircuit(...): TRUE when the constructor returns, FALSE when it raises
circuit_init_ok(ip, outp, pm) ==
    \A n \in DOMAIN pm : n \in DOMAIN ip \/ n \in DOMAIN outp

add_port(c, n, width, direction, multiplier) ==
    IF direction = "INPUT"
    THEN IF n \in DOMAIN c.input_ports
         THEN Raise(c, "DuplicatePortException")
         ELSE Return([c EXCEPT !.input_ports = dict_set(@, n, width)])
    ELSE IF n \in DOMAIN c.output_ports
         THEN Raise(c, "DuplicatePortException")
         ELSE Return([c EXCEPT !.output_ports = dict_set(@, n, width)])

change_port_width(c, n, width) ==
    IF n \notin DOMAIN c.input_ports /\ n \notin DOMAIN c.output_ports
    THEN Raise(c, "UnknownPortException")
    ELSE IF n \in DOMAIN c.input_ports
         THEN Return([c EXCEPT !.input_ports = dict_set(@, n, width)])
         ELSE Return([c EXCEPT !.output_ports = dict_set(@, n, width)])

\* the multiplier is set without looking the port up
change_port_multiplier_unchecked(c, n, multiplier) ==
    Return([c EXCEPT !.port_multipliers = dict_set(@, n, multiplier)])

change_port_multiplier(c, n, multiplier) ==
    IF n \notin DOMAIN c.input_ports /\ n \notin DOMAIN c.output_ports
    THEN Raise(c, "UnknownPortException")
    ELSE Return([c EXCEPT !.port_multipliers = dict_set(@, n, multiplier)])

remove_port(c, n) ==
    IF n \notin DOMAIN c.input_ports /\ n \notin DOMAIN c.output_ports
    THEN Raise(c, "UnknownPortException")
    ELSE LET c1 == IF n \in DOMAIN c.input_ports
                   THEN [c EXCEPT !.input_ports = dict_del(@, n)]
                   ELSE [c EXCEPT !.output_ports = dict_del(@, n)]
         IN Return([c1 EXCEPT !.port_multipliers = dict_del(@, n)])

\* a new AxCircuit built from copies of the three dicts
duplicate(c) ==
    IF circuit_init_ok(c.input_ports, c.output_ports, c.port_multipliers)
    THEN Return(Circuit(c.input_ports, c.output_ports, c.port_multipliers))
    ELSE Raise(c, "UnknownPortException")

\* the circuit under edit
self == Circuit(input_ports, output_ports, port_multipliers)

\* a valid circuit: the constructor accepts it and no name is both an input
\* and an output
InitCircuit ==
    /\ RunIdle /\ ScenarioIdle
    /\ input_ports \in Dicts(PortNames, Widths)
    /\ output_ports \in Dicts(PortNames, Widths)
    /\ port_multipliers \in Dicts(PortNames, Multipliers)
    /\ DOMAIN input_ports \cap DOMAIN output_ports = {}
    /\ circuit_init_ok(input_ports, output_ports, port_multipliers)
    /\ op = [kind |-> "init", name |-> "", direction |-> "", exc |-> ""]
    /\ before = self
    /\ undo = None
    /\ nops = 0

\* the method called as kind(n, ...) ended as r
Called(kind, n, direction, r) ==
    /\ nops < MaxOps
    /\ nops' = nops + 1
    /\ op' = [kind |-> kind, name |-> n, direction |-> direction, exc |-> r.exc]
    /\ before' = self
    /\ input_ports' = r.circuit.input_ports
    /\ output_ports' = r.circuit.output_ports
    /\ port_multipliers' = r.circuit.port_multipliers
    /\ UNCHANGED <<run, scn>>

AddPort ==
    \E n \in PortNames, w \in Widths, d \in {"INPUT", "OUTPUT"}, m \in {1} \cup Multipliers :
       LET r == add_port(self, n, w, d, m) IN
       /\ Called("add_port", n, d, r)
       /\ undo' = IF r.exc = "" THEN Some([name |-> n, circuit |-> self]) ELSE None

ChangePortWidth ==
    \E n \in PortNames, w \in Widths :
       /\ Called("change_port_width", n, "", change_port_width(self, n, w))
       /\ undo' = None

ChangePortMultiplier ==
    \E n \in PortNames, m \in Multipliers :
       /\ Called("change_port_multiplier", n, "", change_port_multiplier(self, n, m))
       /\ undo' = None

RemovePort ==
    \E n \in PortNames :
       /\ Called("remove_port", n, "", remove_port(self, n))
       /\ undo' = IF op.kind = "add_port" /\ op.exc = "" THEN undo ELSE None

Duplicate ==
    /\ Called("duplicate", "", "", duplicate(self))
    /\ undo' = None

NextCircuit ==
    \/ AddPort
    \/ ChangePortWidth
    \/ ChangePortMultiplier
    \/ RemovePort
    \/ Duplicate

SpecCircuit == InitCircuit /\ [][NextCircuit]_vars

\* --------------------------------------------- axpy/scenario, as objects
\* Two scenarios are constructed from arbitrary arguments and then named.
\* Voltages are in millivolts; a negative supply is a body-bias style value.
ScenAcc == {8, 4}
ScenVdd == {900, 904, 896, 1000, 0 - 900, 0 - 904, 0 - 896, 0 - 1000}
ScenCm == {None, Some(1), Some(2)}
ScenModes == {None, Some(<<<<"m0", 0>>>>), Some(<<<<"m0", 1>>>>)}

InitScenario == RunIdle /\ CircuitIdle /\ ScenarioIdle

NewScenarioA ==
    /\ scen_a = None
    /\ \E accuracy \in ScenAcc, vdd \in ScenVdd, cm \in ScenCm, ms \in ScenModes :
          scen_a' = Some(AxScenario(accuracy, vdd, cm, ms))
    /\ UNCHANGED <<run, circ, scen_b, scen_names, scen_dup>>

NewScenarioB ==
    /\ scen_b = None
    /\ \E accuracy \in ScenAcc, vdd \in ScenVdd, cm \in ScenCm, ms \in ScenModes :
          scen_b' = Some(AxScenario(accuracy, vdd, cm, ms))
    /\ UNCHANGED <<run, circ, scen_a, scen_names, scen_dup>>

\* reading the name property of both scenarios
Names ==
    /\ scen_a # None /\ scen_b # None /\ scen_names = None
    /\ scen_names' = Some(<<name(scen_a[1]), name(scen_b[1])>>)
    /\ UNCHANGED <<run, circ, scen_a, scen_b, scen_dup>>

\* scen_a.duplicate()
DuplicateScenario ==
    /\ scen_a # None /\ scen_dup = None
    /\ scen_dup' = Some(scenario_duplicate(scen_a[1]))
    /\ UNCHANGED <<run, circ, scen_a, scen_b, scen_names>>

NextScenario == NewScenarioA \/ NewScenarioB \/ Names \/ DuplicateScenario

SpecScenario == InitScenario /\ [][NextScenario]_vars

\* ----------------------------------------------------------------- claims
MaxOf(S) == CHOOSE x \in S : \A y \in S : y <= x
LastCall == calls[Len(calls)]
RunEnded ==
    pc \in {"done", "TimingException", "UnboundLocalError", "KeyError", "FileNotFoundError"}
NothingWritten == report = None /\ out_files = {} /\ result = None

\* C1: every backend call is made with all the scenarios committed so far, in
\* commit order, followed by exactly one trial scenario; no call contains the
\* trial of an earlier rejected call; the first call, and only the first, is
\* made with the nominal scenario alone.
C1_CumulativeCalls ==
    \A k \in DOMAIN calls :
      LET c == calls[k] IN
      /\ c.ncommitted <= Len(committed)
      /\ c.scens = Append(SubSeq(committed, 1, c.ncommitted), c.trial)
      /\ \A j \in 1..(k - 1) : ~calls[j].accepted => calls[j].trial \notin Range(c.scens)
      /\ (Len(c.scens) = 1) <=> (k = 1)
      /\ k = 1 => /\ c.trial.accuracy = MaxOf(Range(cfg.precision))
                  /\ c.trial.vdd = MaxOf(Range(vdd_list))

C1_Witness ==
    /\ pc = "done"
    /\ Len(calls) >= 5
    /\ \E j \in 1..(Len(calls) - 1) : ~calls[j].accepted

\* C2: the first trial of every non-nominal precision is made at the voltage
\* (and voltage index) committed for the previous precision, the index of
\* these first trials never decreases, and on a completed run the voltage
\* committed for a precision is at most the one committed for any higher
\* precision.
C2_MonotoneVoltage ==
    /\ \A k \in DOMAIN calls :
         calls[k].kind = "same" =>
           /\ calls[k].trial.vdd = committed[calls[k].acc_id].vdd
           /\ At(vdd_list, calls[k].vdd_id) = committed[calls[k].acc_id].vdd
           /\ \A j \in 1..(k - 1) :
                 calls[j].kind # "probe" => calls[j].vdd_id <= calls[k].vdd_id
    /\ pc = "done" =>
         \A p, q \in DOMAIN scen_table :
            p < q => scen_table[p][1].vdd <= scen_table[q][1].vdd

C2_Witness ==
    /\ pc = "done"
    /\ Len(committed) = 3
    /\ committed[3].vdd < committed[2].vdd
    /\ committed[2].vdd < committed[1].vdd

\* C3: a probe that is non-compliant or whose weighted total power exceeds
\* the best so far is rejected and ends the probing of its precision: no
\* later call is made for that precision, and the scenario kept and committed
\* for it is the trial of the call just before, one voltage step higher.
C3_SinglePass ==
    /\ (calls # <<>> /\ LastCall.kind = "probe" /\ (~last.ok \/ last.tot > last.best))
          => ~LastCall.accepted /\ pc # "probe"
    /\ \A k \in DOMAIN calls :
         (calls[k].kind = "probe" /\ ~calls[k].accepted) =>
           /\ \A j \in (k + 1)..Len(calls) : calls[j].acc_id # calls[k].acc_id
           /\ calls[k - 1].acc_id = calls[k].acc_id
           /\ calls[k - 1].accepted
           /\ calls[k - 1].vdd_id = calls[k].vdd_id - 1
           /\ IF Len(committed) > calls[k].acc_id
              THEN committed[calls[k].acc_id + 1] = calls[k - 1].trial
              ELSE pc = "commit" /\ curr_scenario = calls[k - 1].trial

C3_Witness ==
    /\ pc = "done"
    /\ LastCall.kind = "probe"
    /\ last.ok /\ last.tot > last.best
    /\ LastCall.vdd_id + 1 < Len(vdd_list)
    /\ committed[Len(committed)].vdd = At(vdd_list, LastCall.vdd_id - 1)

\* C4: a non-compliant nominal call ends the run with TimingException: it
\* stays the only backend call, and no report, artifact or result is produced.
C4_NominalFailure ==
    (calls # <<>> /\ ~calls[1].accepted) =>
       /\ pc = "TimingException"
       /\ Len(calls) = 1
       /\ committed = <<>>
       /\ NothingWritten

C4_Witness ==
    pc = "TimingException" /\ Len(calls) = 1 /\ ~last.ok

\* C5: a non-compliant first trial of a non-nominal precision ends the run
\* with TimingException: it is the last backend call, nothing is committed
\* for that or any later precision, and no report, artifact or result is
\* produced, however many precisions were committed before.
C5_SameVddFailure ==
    \A k \in DOMAIN calls :
      (calls[k].kind = "same" /\ ~calls[k].accepted) =>
         /\ pc = "TimingException"
         /\ k = Len(calls)
         /\ Len(committed) = calls[k].acc_id
         /\ NothingWritten

C5_Witness ==
    /\ pc = "TimingException"
    /\ LastCall.kind = "same"
    /\ Len(committed) = 2
    /\ \E j \in DOMAIN calls : calls[j].kind = "probe" /\ calls[j].accepted

\* the configuration errors named by C6
WrongWeights(c) == c.weights # None /\ Len(c.weights[1]) # Len(c.precision)
WrongModes(c) ==
    /\ c.mode_inputs # None
    /\ \/ Len(c.mode_values[1]) # Len(c.precision)
       \/ \E k \in DOMAIN c.mode_values[1] :
             \/ Len(c.mode_values[1][k]) # Len(c.mode_inputs[1])
             \/ \E j \in DOMAIN c.mode_values[1][k] : c.mode_values[1][k][j] \notin {0, 1}

C6_WitnessModes ==
    pc = "ConfigException" /\ WrongModes(cfg) /\ ~WrongWeights(cfg)

\* C7 as stated: on a completed run the power table is, precision by
\* precision in commit order, the power vector returned by the last backend
\* call of the run.
C7_LastCall ==
    pc = "done" =>
       \A i \in DOMAIN committed : power_table[committed[i].accuracy] = Some(last.power[i])

\* C7 amended: on a completed run the power table is, precision by precision
\* in commit order, the power vector returned by the last backend call whose
\* trial was accepted, which is the call that tested the committed scenarios.
C7_LastAcceptedCall ==
    pc = "done" =>
       LET k == MaxOf({j \in DOMAIN calls : calls[j].accepted}) IN
       /\ calls[k].scens = committed
       /\ DOMAIN power_table = {committed[i].accuracy : i \in DOMAIN committed}
       /\ Len(accepted_ret) = Len(committed)
       /\ \A i \in DOMAIN committed :
             power_table[committed[i].accuracy] = Some(accepted_ret[i])

C7_Witness ==
    /\ pc = "done"
    /\ ~LastCall.accepted
    /\ \E i \in DOMAIN committed : last.power[i] # accepted_ret[i]

\* C8: a run in which the nominal call and every first same-voltage trial are
\* compliant completes and returns one (power, scenario) entry per configured
\* precision, in descending precision order; any other run ends with no
\* report and no result.
C8_CompletesOrAborts ==
    RunEnded =>
       IF \A k \in DOMAIN calls : calls[k].kind \in {"nominal", "same"} => calls[k].accepted
       THEN /\ pc = "done"
            /\ result # None
            /\ Len(result[1]) = Len(cfg.precision)
            /\ {result[1][i][2].accuracy : i \in DOMAIN result[1]} = Range(cfg.precision)
            /\ \A i, j \in DOMAIN result[1] :
                  i < j => result[1][i][2].accuracy > result[1][j][2].accuracy
            /\ \A i \in DOMAIN result[1] : result[1][i][1] \in 0..MaxPower
       ELSE report = None /\ result = None

\* C9: on a completed run the number of backend calls is 1 for the nominal
\* call plus, for every non-nominal precision, 1 plus the number of voltage
\* steps probed for it.
C9_CallCount ==
    pc = "done" =>
       LET S[k \in 0..Len(steps)] == IF k = 0 THEN 0 ELSE S[k - 1] + 1 + steps[k] IN
       /\ Len(steps) = Len(acc_list) - 1
       /\ Len(calls) = 1 + S[Len(steps)]

C9_Witness ==
    /\ pc = "done"
    /\ Len(steps) = 2
    /\ steps[1] = 2 /\ steps[2] = 0
    /\ Len(calls) = 5

\* C10: when run reaches the copy of the artifacts, the key it uses, the
\* joined names of the committed scenarios, is the key of a backend call of
\* this run that tested exactly the committed scenarios, so the files are
\* there and the copy is made under that key.
C10_FinalKey ==
    pc \in {"done", "FileNotFoundError"} =>
       LET key == join([i \in DOMAIN committed |-> name(committed[i])]) IN
       /\ pc = "done"
       /\ out_files = {key}
       /\ key \in work_files
       /\ \E k \in DOMAIN calls : calls[k].key = key /\ calls[k].scens = committed

C10_Witness ==
    /\ pc = "done"
    /\ Len(committed) = 3
    /\ ~LastCall.accepted
    /\ out_files # {}

\* C11: a successful add_port followed at once by remove_port of the same
\* name leaves the input-port, output-port and multiplier tables as they were
\* before the add_port, also when the name was a port of the other direction.
C11_RoundTrip ==
    (op.kind = "remove_port" /\ op.exc = "" /\ undo # None /\ undo[1].name = op.name)
       => self = undo[1].circuit

\* C11 where it holds: the added name was no port of either direction
C11_FreshName ==
    (/\ op.kind = "remove_port" /\ op.exc = "" /\ undo # None /\ undo[1].name = op.name
     /\ op.name \notin DOMAIN undo[1].circuit.input_ports
     /\ op.name \notin DOMAIN undo[1].circuit.output_ports)
       => self = undo[1].circuit

\* C12: change_port_width, change_port_multiplier and remove_port of a name
\* that is in neither port table raise UnknownPortException, add_port of a
\* name already in the table of its direction raises DuplicatePortException,
\* and a call that raises leaves the three tables unchanged.
C12_FailuresKeepTables ==
    /\ (/\ op.kind \in {"change_port_width", "change_port_multiplier", "remove_port"}
        /\ op.name \notin DOMAIN before.input_ports
        /\ op.name \notin DOMAIN before.output_ports)
          => op.exc = "UnknownPortException"
    /\ (/\ op.kind = "add_port"
        /\ op.name \in DOMAIN (IF op.direction = "INPUT" THEN before.input_ports
                                                         ELSE before.output_ports))
          => op.exc = "DuplicatePortException"
    /\ op.exc # "" => self = before

C12_Witness ==
    /\ op.kind = "change_port_multiplier"
    /\ op.exc = "UnknownPortException"
    /\ DOMAIN before.input_ports # {}
    /\ self = before

C12_WitnessDuplicate ==
    /\ op.kind = "add_port"
    /\ op.exc = "DuplicatePortException"
    /\ op.name \notin DOMAIN before.input_ports

\* C20: after any sequence of circuit operations from a valid circuit, every
\* key of the multiplier table is an input or output port and no name is in
\* both the input and the output table.
C20_DescriptorInvariant ==
    /\ \A n \in DOMAIN port_multipliers :
          n \in DOMAIN input_ports \/ n \in DOMAIN output_ports
    /\ DOMAIN input_ports \cap DOMAIN output_ports = {}

\* the first half of C20, which the operations keep
C20_MultiplierKeys ==
    \A n \in DOMAIN port_multipliers :
       n \in DOMAIN input_ports \/ n \in DOMAIN output_ports

\* C13: the name of a scenario depends on its precision and voltage only:
\* two scenarios with the same precision and voltage have the same name
\* whatever their clock multipliers and mode signals, and two scenarios of
\* one precision with voltages v and -v (v > 0) have different names that
\* differ in the sign prefix only.
C13_NamePure ==
    scen_names # None =>
       LET a == scen_a[1]  b == scen_b[1]
           na == scen_names[1][1]  nb == scen_names[1][2]
       IN /\ (a.accuracy = b.accuracy /\ a.vdd = b.vdd) => na = nb
          /\ (a.accuracy = b.accuracy /\ a.vdd > 0 /\ b.vdd = 0 - a.vdd) =>
                /\ na # nb
                /\ Len(na) = Len(nb)
                /\ \A i \in 1..Len(na) : i # 4 => na[i] = nb[i]
                /\ na[4][1] = "" /\ nb[4][1] = "m"
                /\ na[4][2] = nb[4][2]

\* same precision and voltage, different clock multiplier and mode signals
C13_Witness ==
    /\ scen_names # None
    /\ scen_a[1].accuracy = scen_b[1].accuracy /\ scen_a[1].vdd = scen_b[1].vdd
    /\ scen_a[1].clock_multiplier # scen_b[1].clock_multiplier
    /\ scen_a[1].mode_signals # scen_b[1].mode_signals
    /\ scen_names[1][1] = scen_names[1][2]

\* voltages 0.9 and -0.9 at one precision
C13_WitnessSign ==
    /\ scen_names # None
    /\ scen_a[1].accuracy = scen_b[1].accuracy
    /\ scen_a[1].vdd = 900 /\ scen_b[1].vdd = 0 - 900
    /\ scen_names[1][1] # scen_names[1][2]

\* two distinct candidate voltages print as the same two-decimal string
SameTwoDecimals(vdds) ==
    \E i, j \in DOMAIN vdds :
       vdds[i] # vdds[j] /\ voltage_to_string(vdds[i]) = voltage_to_string(vdds[j])

\* C14: when two distinct candidate voltages round to the same two-decimal
\* value the run fails with a configuration error before any backend call.
C14_RoundingCollision ==
    (pc # "start" /\ SameTwoDecimals(vdd_list)) =>
       pc = "ConfigException" /\ calls = <<>>

\* C15: a probed voltage becomes the current voltage exactly when the backend
\* reports compliance and the probe's weighted total is at most the best total
\* so far for this precision (equal totals are accepted); the current total
\* starts at the same-voltage trial's total and never increases.
C15_AcceptRule ==
    calls # <<>> =>
       /\ LastCall.kind = "same" => curr_tot_power = last.tot
       /\ LastCall.kind = "probe" =>
             /\ (curr_vdd_id = LastCall.vdd_id) <=> (last.ok /\ last.tot <= last.best)
             /\ curr_tot_power = (IF curr_vdd_id = LastCall.vdd_id THEN last.tot
                                                                   ELSE last.best)
             /\ curr_tot_power <= last.best

\* a compliant probe with the same total as the best so far is accepted
C15_Witness ==
    /\ calls # <<>> /\ LastCall.kind = "probe"
    /\ last.ok /\ last.tot = last.best /\ last.tot > 0
    /\ curr_vdd_id = LastCall.vdd_id

\* a compliant probe with a higher total is rejected
C15_WitnessRejected ==
    /\ calls # <<>> /\ LastCall.kind = "probe"
    /\ last.ok /\ last.tot > last.best
    /\ curr_vdd_id # LastCall.vdd_id

\* the members of a set of numbers, largest first
RECURSIVE Descending(_)
Descending(S) ==
    IF S = {} THEN <<>> ELSE <<MaxOf(S)>> \o Descending(S \ {MaxOf(S)})

Written(table) == {a \in DOMAIN table : table[a] # None}
IsPrefix(W, list) == \E k \in 0..Len(list) : W = {list[i] : i \in 1..k}
Sorted == pc \notin {"start", "loaded", "ConfigException"}

\* C16: in every state of a run the precisions with an entry in the scenario
\* table, and those with an entry in the power table, form a prefix of the
\* configured precisions taken in descending order, and an entry, once
\* written, is never overwritten or cleared.
C16_PrefixTables ==
    /\ [](Sorted =>
            LET desc == Descending(Range(cfg.precision)) IN
            /\ DOMAIN scen_table \subseteq Range(desc)
            /\ DOMAIN power_table \subseteq Range(desc)
            /\ IsPrefix(Written(scen_table), desc)
            /\ IsPrefix(Written(power_table), desc))
    /\ [][Sorted =>
            /\ \A a \in Written(scen_table) : scen_table'[a] = scen_table[a]
            /\ \A a \in Written(power_table) : power_table'[a] = power_table[a]]_vars

\* two of three precisions decided, from a configuration not in descending order
C16_Witness ==
    /\ Sorted /\ Len(cfg.precision) = 3
    /\ cfg.precision # Descending(Range(cfg.precision))
    /\ Written(scen_table) = {8, 4}
    /\ pc = "probe"

\* the power table written at the end of a run
C16_WitnessPower ==
    /\ pc = "done"
    /\ Written(power_table) = Range(cfg.precision)
    /\ Len(cfg.precision) > 1

\* the place of precision a in the configured precision list
ConfigIndex(a) == CHOOSE i \in DOMAIN cfg.precision : cfg.precision[i] = a

\* the mode signals the configuration gives to precision a
ConfiguredMode(a) ==
    IF cfg.mode_inputs = None THEN None
    ELSE Some([j \in DOMAIN cfg.mode_inputs[1] |->
                 <<cfg.mode_inputs[1][j], cfg.mode_values[1][ConfigIndex(a)][j]>>])

\* C17: whatever the order of the precisions in the configuration, every
\* scenario built for a precision (nominal, same-voltage trial, probe) carries
\* the 0/1 values the configuration gives for that precision, paired with
\* the mode-signal names in configured order.
C17_ModeSignals ==
    \A k \in DOMAIN calls :
       /\ calls[k].trial.mode_signals = ConfiguredMode(calls[k].trial.accuracy)
       /\ \A i \in DOMAIN calls[k].scens :
             calls[k].scens[i].mode_signals = ConfiguredMode(calls[k].scens[i].accuracy)

\* a probe for the precision listed first in a configuration that is not in
\* descending order and has two mode signals
C17_Witness ==
    /\ calls # <<>> /\ LastCall.kind = "probe"
    /\ cfg.mode_inputs # None /\ Len(cfg.mode_inputs[1]) = 2
    /\ cfg.precision[1] = LastCall.trial.accuracy
    /\ LastCall.acc_id # 0
    /\ LastCall.trial.mode_signals = Some(<<(<<"m0", 0>>), (<<"m1", 1>>)>>)

\* the clock multiplier the configuration gives to precision a
ConfiguredClockMultiplier(a) ==
    IF cfg.clock_multipliers = None THEN None
    ELSE Some(cfg.clock_multipliers[1][ConfigIndex(a)])

\* C18: whatever the order of the precisions in the configuration, every
\* scenario built for a precision carries the clock multiplier the
\* configuration gives for that precision.
C18_OwnClockMultiplier ==
    \A k \in DOMAIN calls :
       calls[k].trial.clock_multiplier = ConfiguredClockMultiplier(calls[k].trial.accuracy)

\* the weight the configuration gives to precision a (1 when none are given)
ConfiguredWeight(a) ==
    IF cfg.weights = None THEN 1 ELSE cfg.weights[1][ConfigIndex(a)]

\* the sum of power[i] times the configured weight of the i-th precision in
\* descending order
ConfiguredTotal(power) ==
    LET S[k \in 0..Len(power)] ==
          IF k = 0 THEN 0 ELSE S[k - 1] + power[k] * ConfiguredWeight(acc_list[k])
    IN S[Len(power)]

\* C19: the weighted total of a backend power vector of length N is the sum
\* over the first N precisions in descending order of the precision's power
\* times the weight configured for that same precision.
C19_ConfiguredWeights ==
    calls # <<>> => last.tot = ConfiguredTotal(last.power)

\* C21: the duplicate of a scenario whose precision and voltage differ has
\* the precision, voltage, clock multiplier and mode signals of the original,
\* and so the same name and the same serialized form.
C21_DuplicateEqual ==
    (scen_dup # None /\ scen_a[1].accuracy * 1000 # scen_a[1].vdd) =>
       LET s == scen_a[1]  d == scen_dup[1] IN
       /\ d.accuracy = s.accuracy /\ d.vdd = s.vdd
       /\ d.clock_multiplier = s.clock_multiplier
       /\ d.mode_signals = s.mode_signals
       /\ name(d) = name(s)
       /\ tcl_description(d) = tcl_description(s)

\* what duplicate does keep: the clock multiplier and the mode signals
C21_DuplicateKeepsRest ==
    scen_dup # None =>
       /\ scen_dup[1].clock_multiplier = scen_a[1].clock_multiplier
       /\ scen_dup[1].mode_signals = scen_a[1].mode_signals

\* C22: provided every backend call returns, run terminates (it returns or
\* raises), and with P precisions and V candidate voltages it makes at most
\* 2P + V - 2 backend calls.
C22_TerminatesBounded ==
    /\ [](Sorted => Len(calls) <= 2 * Len(acc_list) + Len(vdd_list) - 2)
    /\ (pc = "loaded") ~> RunEnded

\* a completed run of three precisions over three voltages with a rejected
\* probe, two accepted probes and six calls
C22_Witness ==
    /\ pc = "done"
    /\ Len(acc_list) = 3 /\ Len(vdd_list) = 3
    /\ Len(calls) = 6
    /\ \E k \in DOMAIN calls : calls[k].kind = "probe" /\ ~calls[k].accepted
    /\ curr_vdd_id = 2

====
